---- MODULE Spec2Model ----
(***************************************************************************)
(* zippy: a terminal word-at-a-time text player.                           *)
(*                                                                         *)
(* The model covers the playback stream engine (stream.go: eagerStream and *)
(* lazyStream), the rune tokenizer behind the lazy stream, and the         *)
(* Bubble Tea controller (main.go: model.Update) together with the part of *)
(* the runtime the controller relies on: commands run in goroutines, and   *)
(* their messages (timer ticks, token results) come back in any order.     *)
(***************************************************************************)
EXTENDS Integers, Sequences, FiniteSets, Bags, TLC

VARIABLES
    src,        \* the input: [text: the runes of the file or pipe, errs: offsets whose read fails]
    stream,     \* the stream object (an eagerStream or a lazyStream)
    tok,        \* the tokenizer of the source opened last: [pos, buf, done, raced]
    closes,     \* number of Close() calls made on the source handle opened last
    leaked,     \* number of source handles replaced by a new one while still open
    fetching,   \* bag of [stale, t]: tokenizeCmd commands issued whose tokenMsg is not handled yet
    races,      \* number of next() calls so far whose tokenizer was used by two commands at once
    ticks,      \* number of tickMsg timers scheduled and not yet handled
    running,    \* model.running
    wpm,        \* model.wpm
    started,    \* whether the program has run model.Init
    crashed,    \* whether a panic has ended the program
    phase,      \* position of the scenario: "first", "again" (replay), "playing" (playback)
    firstRun,   \* replay scenario: what each advance of the first run showed
    replay      \* replay scenario: what each advance since the restart showed

vars == <<src, stream, tok, closes, leaked, fetching, races, ticks,
          running, wpm, started, crashed, phase, firstRun, replay>>

runtimeVars == <<fetching, races, ticks>>
sourceVars == <<tok, closes, leaked>>
scenarioVars == <<phase, firstRun, replay>>

----------------------------------------------------------------------------
(* Bounds *)

MaxText == 4        \* longest input, in runes
MaxStale == 1       \* commands still running on superseded sources
MaxTicks == 2       \* timers pending at once
MaxSpeedSteps == 1  \* how far the rate moves from the starting rate, in speed keys
MaxRaces == 1       \* overlapping next() calls in one run

(* Program constants *)

StartWPM == 500
MinWPM == 50
MaxWPM == 1200
WPMStep == 25
Second == 1000000000     \* time.Second, in nanoseconds
SecondsPerMinute == 60   \* time.Minute = 60 * time.Second

Runes == {" ", "a"}
IsSpace(r) == r = " "

Texts == UNION {[1..n -> Runes] : n \in 0..MaxText}

\* The name the stream knows its source handle and its tokenizer by.
Cur == "cur"

----------------------------------------------------------------------------
(* The tokenizers: tokenize (eager) and tokenizer.next (lazy) *)

RECURSIVE tokenizeFrom(_, _, _, _)
tokenizeFrom(text, i, b, tokens) ==
    IF i > Len(text)
    THEN IF Len(b) > 0 THEN Append(tokens, b) ELSE tokens
    ELSE IF IsSpace(text[i])
         THEN IF Len(b) > 0
              THEN tokenizeFrom(text, i + 1, <<>>, Append(tokens, b))
              ELSE tokenizeFrom(text, i + 1, b, tokens)
         ELSE tokenizeFrom(text, i + 1, Append(b, text[i]), tokens)

tokenize(text) == tokenizeFrom(text, 1, <<>>, <<>>)

newTokenizer == [pos |-> 0, buf |-> <<>>, done |-> FALSE, raced |-> FALSE]

\* The read loop of tokenizer.next: t.pos runes were read so far; a read at an
\* offset in fails returns an error that is not io.EOF.
RECURSIVE readLoop(_, _, _)
readLoop(t, text, fails) ==
    IF t.pos \in fails
    THEN [t |-> t, word |-> <<>>, done |-> TRUE, err |-> "io"]
    ELSE IF t.pos >= Len(text)
    THEN IF Len(t.buf) > 0
         THEN [t |-> [t EXCEPT !.buf = <<>>, !.done = TRUE],
               word |-> t.buf, done |-> TRUE, err |-> "nil"]
         ELSE [t |-> [t EXCEPT !.done = TRUE],
               word |-> <<>>, done |-> TRUE, err |-> "nil"]
    ELSE LET r == text[t.pos + 1] IN
         IF IsSpace(r)
         THEN IF Len(t.buf) > 0
              THEN [t |-> [t EXCEPT !.pos = @ + 1, !.buf = <<>>],
                    word |-> t.buf, done |-> FALSE, err |-> "nil"]
              ELSE readLoop([t EXCEPT !.pos = @ + 1], text, fails)
         ELSE readLoop([t EXCEPT !.pos = @ + 1, !.buf = Append(@, r)], text, fails)

tokenizer_next(t, text, fails) ==
    IF t.done
    THEN [t |-> t, word |-> <<>>, done |-> TRUE, err |-> "nil"]
    ELSE readLoop(t, text, fails)

----------------------------------------------------------------------------
(* eagerStream *)

newEagerStream(words, supportsRestart) ==
    [kind |-> "eager", words |-> words, idx |-> 0, supportsRestart |-> supportsRestart,
     tokenizer |-> {}, inputCloser |-> {}, done |-> FALSE, err |-> "nil",
     waitingToken |-> FALSE, hasCurrent |-> FALSE, currentWord |-> <<>>, total |-> 0]

\* What a stream method hands back besides the stream: the command it returns
\* (cmd: the tokenizer to fetch from, or none) and the handle it closed.
Ret(s, cmd, closed) == [s |-> s, cmd |-> cmd, closed |-> closed]

eagerStream_Current(s) ==
    IF Len(s.words) = 0 \/ s.idx < 0 \/ s.idx >= Len(s.words)
    THEN [word |-> <<>>, ok |-> FALSE]
    ELSE [word |-> s.words[s.idx + 1], ok |-> TRUE]

\* Mutant: Next() without the clamp at the last word.
eagerStream_Next_unclamped(s) == Ret([s EXCEPT !.idx = @ + 1], {}, {})

eagerStream_Next(s) ==
    Ret(IF s.idx < Len(s.words) - 1 THEN [s EXCEPT !.idx = @ + 1] ELSE s, {}, {})

eagerStream_Prev(s) ==
    IF s.idx > 0 THEN [s EXCEPT !.idx = @ - 1] ELSE s

eagerStream_Restart(s) ==
    Ret(IF s.supportsRestart THEN [s EXCEPT !.idx = 0] ELSE s, {}, {})

eagerStream_CanAdvance(s) == Len(s.words) > 0 /\ s.idx < Len(s.words) - 1

eagerStream_Pos(s) == IF Len(s.words) = 0 THEN -1 ELSE s.idx

eagerStream_Total(s) == [known |-> TRUE, count |-> Len(s.words)]

----------------------------------------------------------------------------
(* lazyStream *)

newLazyStream(supportsRestart) ==
    [kind |-> "lazy", words |-> <<>>, idx |-> -1, supportsRestart |-> supportsRestart,
     tokenizer |-> {Cur}, inputCloser |-> {Cur}, done |-> FALSE, err |-> "nil",
     waitingToken |-> FALSE, hasCurrent |-> FALSE, currentWord |-> <<>>, total |-> 0]

lazyStream_requestToken(s) ==
    IF s.waitingToken \/ s.tokenizer = {}
    THEN Ret(s, {}, {})
    ELSE Ret([s EXCEPT !.waitingToken = TRUE], s.tokenizer, {})

\* Mutant: closeInput that keeps the closed handle.
lazyStream_closeInput_keepsHandle(s) == s

lazyStream_closeInput(s) == [s EXCEPT !.inputCloser = {}]

\* Mutant: resetState that leaves the position where it was.
lazyStream_resetState_keepsIdx(s) ==
    lazyStream_closeInput(
        [s EXCEPT !.done = FALSE, !.err = "nil", !.waitingToken = FALSE,
                  !.hasCurrent = FALSE, !.currentWord = <<>>, !.total = 0])

\* Mutant: resetState that keeps the has-current flag.
lazyStream_resetState_keepsCurrent(s) ==
    lazyStream_closeInput(
        [s EXCEPT !.done = FALSE, !.err = "nil", !.waitingToken = FALSE,
                  !.currentWord = <<>>, !.idx = -1, !.total = 0])

\* Mutant: resetState that keeps the error.
lazyStream_resetState_keepsErr(s) ==
    lazyStream_closeInput(
        [s EXCEPT !.done = FALSE, !.waitingToken = FALSE,
                  !.hasCurrent = FALSE, !.currentWord = <<>>, !.idx = -1, !.total = 0])

lazyStream_resetState(s) ==
    lazyStream_closeInput(
        [s EXCEPT !.done = FALSE, !.err = "nil", !.waitingToken = FALSE,
                  !.hasCurrent = FALSE, !.currentWord = <<>>, !.idx = -1, !.total = 0])

lazyStream_Init(s) ==
    IF s.tokenizer = {} THEN Ret(s, {}, {}) ELSE lazyStream_requestToken(s)

\* Mutant: a token replaces the current word without advancing the position.
lazyStream_Handle_noAdvance(s, tm) ==
    LET s1 == [s EXCEPT !.waitingToken = FALSE] IN
    IF tm.err # "nil"
    THEN Ret(lazyStream_closeInput([s1 EXCEPT !.err = tm.err, !.done = TRUE]),
             {}, s1.inputCloser)
    ELSE LET s2 == IF tm.word # <<>>
                   THEN [s1 EXCEPT !.hasCurrent = TRUE, !.currentWord = tm.word]
                   ELSE s1
         IN IF tm.done
            THEN Ret(lazyStream_closeInput([s2 EXCEPT !.done = TRUE, !.total = s2.idx + 1]),
                     {}, s2.inputCloser)
            ELSE Ret(s2, {}, {})

\* Mutant: a token that arrives together with the end of input is dropped.
lazyStream_Handle_dropsLast(s, tm) ==
    LET s1 == [s EXCEPT !.waitingToken = FALSE] IN
    IF tm.err # "nil"
    THEN Ret(lazyStream_closeInput([s1 EXCEPT !.err = tm.err, !.done = TRUE]),
             {}, s1.inputCloser)
    ELSE IF tm.done
    THEN Ret(lazyStream_closeInput([s1 EXCEPT !.done = TRUE, !.total = s1.idx + 1]),
             {}, s1.inputCloser)
    ELSE Ret(IF tm.word # <<>>
             THEN [s1 EXCEPT !.idx = @ + 1, !.hasCurrent = TRUE, !.currentWord = tm.word]
             ELSE s1, {}, {})

\* Mutant: the end of input with no token clears the current word.
lazyStream_Handle_clearsCurrent(s, tm) ==
    LET s1 == [s EXCEPT !.waitingToken = FALSE] IN
    IF tm.err # "nil"
    THEN Ret(lazyStream_closeInput([s1 EXCEPT !.err = tm.err, !.done = TRUE]),
             {}, s1.inputCloser)
    ELSE IF tm.word = <<>> /\ tm.done
    THEN Ret(lazyStream_closeInput([s1 EXCEPT !.done = TRUE, !.total = s1.idx + 1,
                                              !.hasCurrent = FALSE, !.currentWord = <<>>]),
             {}, s1.inputCloser)
    ELSE LET s2 == IF tm.word # <<>>
                   THEN [s1 EXCEPT !.idx = @ + 1, !.hasCurrent = TRUE,
                                   !.currentWord = tm.word]
                   ELSE s1
         IN IF tm.done
            THEN Ret(lazyStream_closeInput([s2 EXCEPT !.done = TRUE, !.total = s2.idx + 1]),
                     {}, s2.inputCloser)
            ELSE Ret(s2, {}, {})

\* Mutant: an error result clears the current word.
lazyStream_Handle_errorClearsCurrent(s, tm) ==
    LET s1 == [s EXCEPT !.waitingToken = FALSE] IN
    IF tm.err # "nil"
    THEN Ret(lazyStream_closeInput([s1 EXCEPT !.err = tm.err, !.done = TRUE,
                                              !.hasCurrent = FALSE, !.currentWord = <<>>]),
             {}, s1.inputCloser)
    ELSE IF tm.word = <<>> /\ tm.done
    THEN Ret(lazyStream_closeInput([s1 EXCEPT !.done = TRUE, !.total = s1.idx + 1]),
             {}, s1.inputCloser)
    ELSE LET s2 == IF tm.word # <<>>
                   THEN [s1 EXCEPT !.idx = @ + 1, !.hasCurrent = TRUE,
                                   !.currentWord = tm.word]
                   ELSE s1
         IN IF tm.done
            THEN Ret(lazyStream_closeInput([s2 EXCEPT !.done = TRUE, !.total = s2.idx + 1]),
                     {}, s2.inputCloser)
            ELSE Ret(s2, {}, {})

lazyStream_Handle(s, tm) ==
    LET s1 == [s EXCEPT !.waitingToken = FALSE] IN
    IF tm.err # "nil"
    THEN Ret(lazyStream_closeInput([s1 EXCEPT !.err = tm.err, !.done = TRUE]),
             {}, s1.inputCloser)
    ELSE IF tm.word = <<>> /\ tm.done
    THEN Ret(lazyStream_closeInput([s1 EXCEPT !.done = TRUE, !.total = s1.idx + 1]),
             {}, s1.inputCloser)
    ELSE LET s2 == IF tm.word # <<>>
                   THEN [s1 EXCEPT !.idx = @ + 1, !.hasCurrent = TRUE,
                                   !.currentWord = tm.word]
                   ELSE s1
         IN IF tm.done
            THEN Ret(lazyStream_closeInput([s2 EXCEPT !.done = TRUE, !.total = s2.idx + 1]),
                     {}, s2.inputCloser)
            ELSE Ret(s2, {}, {})

lazyStream_Current(s) ==
    IF ~s.hasCurrent
    THEN [word |-> <<>>, ok |-> FALSE]
    ELSE [word |-> s.currentWord, ok |-> TRUE]

\* Mutant: Next() without the check of the exhausted flag.
lazyStream_Next_ignoresDone(s) == lazyStream_requestToken(s)

lazyStream_Next(s) ==
    IF s.done THEN Ret(s, {}, {}) ELSE lazyStream_requestToken(s)

\* Prev() panics.
lazyStream_Prev(s) == [s |-> s, panics |-> TRUE]

\* openOk: whether openInput succeeds.
lazyStream_Restart(s, openOk) ==
    IF ~s.supportsRestart
    THEN Ret(s, {}, {})
    ELSE LET s1 == lazyStream_resetState(s) IN
         IF ~openOk
         THEN Ret([s1 EXCEPT !.err = "open", !.done = TRUE], {}, s.inputCloser)
         ELSE LET r == lazyStream_requestToken(
                           [s1 EXCEPT !.inputCloser = {Cur}, !.tokenizer = {Cur}])
              IN Ret(r.s, r.cmd, s.inputCloser)

lazyStream_CanAdvance(s) == ~s.done

lazyStream_Pos(s) == IF ~s.hasCurrent THEN -1 ELSE s.idx

lazyStream_Total(s) ==
    IF s.done THEN [known |-> TRUE, count |-> s.total]
              ELSE [known |-> FALSE, count |-> 0]

----------------------------------------------------------------------------
(* The stream interface, dispatched on the concrete type *)

IsLazy(s) == s.kind = "lazy"

stream_Init(s) == IF IsLazy(s) THEN lazyStream_Init(s) ELSE Ret(s, {}, {})
stream_Handle(s, tm) == IF IsLazy(s) THEN lazyStream_Handle(s, tm) ELSE Ret(s, {}, {})
stream_Current(s) == IF IsLazy(s) THEN lazyStream_Current(s) ELSE eagerStream_Current(s)
stream_Next(s) == IF IsLazy(s) THEN lazyStream_Next(s) ELSE eagerStream_Next(s)
stream_Prev(s) ==
    IF IsLazy(s) THEN lazyStream_Prev(s) ELSE [s |-> eagerStream_Prev(s), panics |-> FALSE]
stream_Restart(s, openOk) ==
    IF IsLazy(s) THEN lazyStream_Restart(s, openOk) ELSE eagerStream_Restart(s)
stream_SupportsSeek(s) == ~IsLazy(s)
stream_SupportsRestart(s) == s.supportsRestart
stream_CanAdvance(s) == IF IsLazy(s) THEN lazyStream_CanAdvance(s) ELSE eagerStream_CanAdvance(s)
stream_Err(s) == IF IsLazy(s) THEN s.err ELSE "nil"
stream_Pos(s) == IF IsLazy(s) THEN lazyStream_Pos(s) ELSE eagerStream_Pos(s)
stream_Total(s) == IF IsLazy(s) THEN lazyStream_Total(s) ELSE eagerStream_Total(s)

----------------------------------------------------------------------------
(* model: the controller's pure helpers *)

\* Mutant: adjustWPM without the upper clamp.
model_adjustWPM_noUpperClamp(w, delta) ==
    LET w1 == w + delta IN IF w1 < MinWPM THEN MinWPM ELSE w1

model_adjustWPM(w, delta) ==
    LET w1 == w + delta
        w2 == IF w1 < MinWPM THEN MinWPM ELSE w1
    IN IF w2 > MaxWPM THEN MaxWPM ELSE w2

\* time.Minute / time.Duration(w), an integer division of nanoseconds. The
\* quotient is computed from time.Second's quotient and remainder, which keeps
\* every intermediate value within 32 bits for w >= 28.
model_wordInterval(w) ==
    IF w <= 0
    THEN Second
    ELSE SecondsPerMinute * (Second \div w) + (SecondsPerMinute * (Second % w)) \div w

----------------------------------------------------------------------------
(* Construction: main and buildStream *)

\* The offsets of a source at which a read can fail: none, or one offset.
ErrSets(text) == {{}} \cup {{p} : p \in 0..Len(text)}

\* buildStream(lazy, filePath): the lazy stream opens the input and reads nothing
\* yet; the eager stream reads and tokenizes it all, and needs at least one word.
buildStream(text, errs, lazy, isFile) ==
    IF lazy THEN newLazyStream(isFile)
            ELSE newEagerStream(tokenize(text), isFile)

\* The state after main built the stream and the model; fixedErrs says whether
\* the source is given a fixed read failure, rates are the values of the
\* -start-wpm / -wpm flags.
InitWith(fixedErrs, rates) ==
    /\ \E text \in Texts, lazy \in BOOLEAN, isFile \in BOOLEAN :
         \E errs \in (IF fixedErrs THEN ErrSets(text) ELSE {{}}) :
            /\ ~lazy => errs = {} /\ Len(tokenize(text)) > 0
            /\ src = [text |-> text, errs |-> errs]
            /\ stream = buildStream(text, errs, lazy, isFile)
    /\ tok = newTokenizer
    /\ closes = 0
    /\ leaked = 0
    /\ fetching = EmptyBag
    /\ races = 0
    /\ ticks = 0
    /\ running = FALSE
    /\ wpm \in rates
    /\ started = FALSE
    /\ crashed = FALSE
    /\ phase = "first"
    /\ firstRun = <<>>
    /\ replay = <<>>

\* Under the controller a read can fail at any time (ReadFails below), so the
\* source itself carries no fixed failure.
Init == InitWith(FALSE, {StartWPM})

----------------------------------------------------------------------------
(* What a stream call leaves behind in the program *)

\* A command reading from the stream's tokenizer (its state is tok), and one
\* reading from a superseded tokenizer, whose state t it alone still holds.
Fetch == [stale |-> FALSE, t |-> newTokenizer]
StaleFetch(t) == [stale |-> TRUE, t |-> t]

racedTokenizer == [newTokenizer EXCEPT !.raced = TRUE]

\* The commands not yet completed that read from the stream's tokenizer.
Pending == CopiesIn(Fetch, fetching)

Issued(cmd) == SetToBag({Fetch : g \in cmd})

\* The stream after the call, the command handed to the runtime, the Close()
\* calls on the source handle.
Effects(r) ==
    /\ stream' = r.s
    /\ fetching' = fetching (+) Issued(r.cmd)
    /\ closes' = closes + Cardinality(r.closed)

\* tickCmd: one more timer pending.
tickCmd == ticks < MaxTicks /\ ticks' = ticks + 1

----------------------------------------------------------------------------
(* model.Init and model.Update, one action per message *)

model_Init ==
    /\ ~started
    /\ started' = TRUE
    /\ Effects(stream_Init(stream))
    /\ UNCHANGED <<src, crashed, tok, leaked, races, ticks, running, wpm, scenarioVars>>

\* Mutant: case " " that schedules no tick when it starts playing.
TogglePlay_noTick ==
    /\ started
    /\ ~crashed
    /\ running' = ~running
    /\ UNCHANGED <<src, crashed, stream, sourceVars, fetching, races, ticks, wpm, started>>

\* case " ", but for the scenario's position
TogglePlay ==
    /\ started
    /\ ~crashed
    /\ running' = ~running
    /\ IF running' THEN tickCmd ELSE ticks' = ticks
    /\ UNCHANGED <<src, crashed, stream, sourceVars, fetching, races, wpm, started>>

\* case " "
KeySpace == TogglePlay /\ UNCHANGED scenarioVars

\* case "+", "=", "up" (delta 25) and case "-", "_", "down" (delta -25)
AdjustSpeed(delta) ==
    /\ started
    /\ ~crashed
    /\ wpm' = model_adjustWPM(wpm, delta)
    /\ IF running THEN tickCmd ELSE ticks' = ticks
    /\ UNCHANGED <<src, crashed, stream, sourceVars, fetching, races, running, started,
                   scenarioVars>>

\* The speed keys while the rate stays within MaxSpeedSteps keys of the default.
KeySpeed(delta) ==
    /\ AdjustSpeed(delta)
    /\ wpm' - StartWPM <= MaxSpeedSteps * WPMStep
    /\ StartWPM - wpm' <= MaxSpeedSteps * WPMStep

\* case "right", "l"
KeyRight ==
    /\ started
    /\ ~crashed
    /\ IF ~stream_SupportsSeek(stream)
       THEN UNCHANGED <<stream, fetching, closes>>
       ELSE Effects(stream_Next(stream))
    /\ UNCHANGED <<src, crashed, tok, leaked, races, ticks, running, wpm, started,
                   scenarioVars>>

\* Mutant: case "left" without the SupportsSeek() check.
KeyLeft_ungated ==
    /\ started
    /\ ~crashed
    /\ LET r == stream_Prev(stream) IN
       /\ stream' = r.s
       /\ crashed' = r.panics
    /\ UNCHANGED <<src, sourceVars, runtimeVars, running, wpm, started,
                   scenarioVars>>

\* case "left", "h"
KeyLeft ==
    /\ started
    /\ ~crashed
    /\ IF ~stream_SupportsSeek(stream)
       THEN UNCHANGED <<stream, crashed>>
       ELSE LET r == stream_Prev(stream) IN
            /\ stream' = r.s
            /\ crashed' = r.panics
    /\ UNCHANGED <<src, sourceVars, runtimeVars, running, wpm, started,
                   scenarioVars>>

\* After lazyStream.Restart every command issued before it reads from a
\* superseded source: it keeps the old tokenizer, which nothing else uses any
\* more (after a failed reopen the stream still points at it, and being done
\* never calls it). Two such commands on one tokenizer race.
Superseded ==
    LET old == IF Pending > 1 THEN racedTokenizer ELSE tok
        was == {c \in BagToSet(fetching) : c.stale}
        now == was \cup (IF Pending > 0 THEN {StaleFetch(old)} ELSE {})
    IN [c \in now |-> (IF c \in was THEN CopiesIn(c, fetching) ELSE 0)
                      + (IF c = StaleFetch(old) THEN Pending ELSE 0)]

\* Mutant: case "r" that schedules a tick also when Restart() returned a command.
RestartLazy_alwaysTicks(openOk) ==
    LET r == stream_Restart(stream, openOk) IN
    /\ BagCardinality(fetching) <= MaxStale
    /\ stream' = r.s
    /\ fetching' = Superseded (+) Issued(r.cmd)
    /\ closes' = IF openOk THEN 0 ELSE closes + Cardinality(r.closed)
    /\ leaked' = IF openOk /\ closes + Cardinality(r.closed) = 0 THEN leaked + 1 ELSE leaked
    /\ tok' = IF openOk THEN newTokenizer ELSE tok
    /\ IF running THEN tickCmd ELSE ticks' = ticks

\* case "r" on a lazy stream: Restart() with openInput failing or succeeding.
RestartLazy(openOk) ==
    LET r == stream_Restart(stream, openOk) IN
    /\ BagCardinality(fetching) <= MaxStale
    /\ stream' = r.s
    /\ fetching' = Superseded (+) Issued(r.cmd)
    /\ closes' = IF openOk THEN 0 ELSE closes + Cardinality(r.closed)
    /\ leaked' = IF openOk /\ closes + Cardinality(r.closed) = 0 THEN leaked + 1 ELSE leaked
    /\ tok' = IF openOk THEN newTokenizer ELSE tok
    /\ IF running /\ r.cmd = {} THEN tickCmd ELSE ticks' = ticks

\* case "r"
KeyRestart ==
    /\ started
    /\ ~crashed
    /\ IF ~stream_SupportsRestart(stream)
       THEN UNCHANGED <<stream, fetching, closes, leaked, tok, ticks>>
       ELSE IF IsLazy(stream)
       THEN \E openOk \in BOOLEAN : RestartLazy(openOk)
       ELSE LET r == stream_Restart(stream, TRUE) IN
            /\ Effects(r)
            /\ IF running /\ r.cmd = {} THEN tickCmd ELSE ticks' = ticks
            /\ UNCHANGED <<leaked, tok>>
    /\ UNCHANGED <<src, crashed, races, running, wpm, started, scenarioVars>>

\* Mutant: case tickMsg without the check of m.running.
Tick_ignoresPaused ==
    /\ started
    /\ ~crashed
    /\ ticks > 0
    /\ IF ~stream_CanAdvance(stream)
       THEN /\ running' = FALSE
            /\ ticks' = ticks - 1
            /\ UNCHANGED <<stream, fetching, closes>>
       ELSE LET r == stream_Next(stream) IN
            /\ Effects(r)
            /\ ticks' = IF r.cmd # {} THEN ticks - 1 ELSE ticks
            /\ UNCHANGED running
    /\ UNCHANGED <<src, crashed, tok, leaked, races, wpm, started, scenarioVars>>

\* Mutant: case tickMsg that keeps playing at the end of the stream.
Tick_keepsPlaying ==
    /\ started
    /\ ~crashed
    /\ ticks > 0
    /\ IF ~running
       THEN /\ ticks' = ticks - 1
            /\ UNCHANGED <<stream, fetching, closes, running>>
       ELSE IF ~stream_CanAdvance(stream)
       THEN UNCHANGED <<stream, fetching, closes, running, ticks>>
       ELSE LET r == stream_Next(stream) IN
            /\ Effects(r)
            /\ ticks' = IF r.cmd # {} THEN ticks - 1 ELSE ticks
            /\ UNCHANGED running
    /\ UNCHANGED <<src, crashed, tok, leaked, races, wpm, started, scenarioVars>>

\* case tickMsg
Tick ==
    /\ started
    /\ ~crashed
    /\ ticks > 0
    /\ IF ~running
       THEN /\ ticks' = ticks - 1
            /\ UNCHANGED <<stream, fetching, closes, running>>
       ELSE IF ~stream_CanAdvance(stream)
       THEN /\ running' = FALSE
            /\ ticks' = ticks - 1
            /\ UNCHANGED <<stream, fetching, closes>>
       ELSE LET r == stream_Next(stream) IN
            /\ Effects(r)
            /\ ticks' = IF r.cmd # {} THEN ticks - 1 ELSE ticks
            /\ UNCHANGED running
    /\ UNCHANGED <<src, crashed, tok, leaked, races, wpm, started, scenarioVars>>

\* A call of next() can fail at its first read: the disk or the pipe fails, or
\* the handle was closed meanwhile by a restart. (A failure at a later read of
\* the same call returns the same error and leaves a tokenizer the stream,
\* being done, never calls again.)
ReadFails(t) == {{}, {t.pos}}

RaceWords == {<<>>, <<"a">>}

\* Two commands running next() on one tokenizer at once race on its reader and
\* buffer: from then on a call on it can return anything.
RaceResults ==
    [t : {racedTokenizer}, word : RaceWords, done : BOOLEAN, err : {"nil"}]
    \cup
    [t : {racedTokenizer}, word : {<<>>}, done : {TRUE}, err : {"io"}]

\* The tokenizer the command c reads from.
TokenizerOf(c) == IF c.stale THEN c.t ELSE tok

Overlaps(c) == TokenizerOf(c).raced \/ (~c.stale /\ Pending > 1)

\* What the command tokenizeCmd(t) can produce: the tokenizer after next() and
\* the tokenMsg made of what next() returned.
tokenizeCmd(c) ==
    IF Overlaps(c)
    THEN RaceResults
    ELSE {tokenizer_next(TokenizerOf(c), src.text, src.errs \cup f) :
            f \in ReadFails(TokenizerOf(c))}

tokenMsg(r) == [word |-> r.word, done |-> r.done, err |-> r.err]

\* case tokenMsg: the command c completes, next() having returned res, and
\* Update handles its message.
TokenMsgWith(c, res) ==
    LET r == stream_Handle(stream, tokenMsg(res)) IN
    /\ started
    /\ ~crashed
    /\ BagIn(c, fetching)
    /\ Overlaps(c) => races < MaxRaces
    /\ races' = IF Overlaps(c) THEN races + 1 ELSE races
    /\ stream' = r.s
    /\ fetching' = (fetching (-) SetToBag({c})) (+) Issued(r.cmd)
    /\ tok' = IF c.stale THEN tok ELSE res.t
    /\ closes' = closes + Cardinality(r.closed)
    /\ IF r.cmd # {}
       THEN UNCHANGED <<ticks, running>>
       ELSE IF running
       THEN IF stream_Current(r.s).ok
            THEN tickCmd /\ UNCHANGED running
            ELSE /\ running' = (running /\ stream_CanAdvance(r.s))
                 /\ ticks' = ticks
       ELSE UNCHANGED <<ticks, running>>
    /\ UNCHANGED <<src, crashed, leaked, wpm, started, scenarioVars>>

TokenMsg(c) == \E res \in tokenizeCmd(c) : TokenMsgWith(c, res)

----------------------------------------------------------------------------

Next ==
    \/ model_Init
    \/ KeySpace
    \/ \E delta \in {WPMStep, -WPMStep} : KeySpeed(delta)
    \/ KeyRight
    \/ KeyLeft
    \/ KeyRestart
    \/ Tick
    \/ \E c \in BagToSet(fetching) : TokenMsg(c)

Spec == Init /\ [][Next]_vars

----------------------------------------------------------------------------
(* The replay scenario of the stream tests (TestLazyStreamFlow,                *)
(* TestLazyStreamRestartFile): the stream is driven directly, every command a  *)
(* call returns is run to its end and its message handled before the next     *)
(* call; the source fails, if it does, at a fixed offset on every read.        *)

\* What the renderer would show: Current() and Pos().
Shown(s) == [word |-> stream_Current(s).word, ok |-> stream_Current(s).ok,
             pos |-> stream_Pos(s)]

\* msg := runCmd(t, cmd); s.Handle(msg) for the call result r, with the
\* tokenizer t: the stream, the tokenizer and the Close() calls afterwards.
runCmd(r, t) ==
    IF r.cmd = {}
    THEN [s |-> r.s, t |-> t, closed |-> Cardinality(r.closed)]
    ELSE LET res == tokenizer_next(t, src.text, src.errs)
             h == stream_Handle(r.s, tokenMsg(res))
         IN [s |-> h.s, t |-> res.t, closed |-> Cardinality(r.closed) + Cardinality(h.closed)]

ReplayInit == InitWith(TRUE, {StartWPM})

\* s.Init(), the first fetch of a lazy stream.
ReplayStart ==
    /\ ~started
    /\ started' = TRUE
    /\ LET d == runCmd(stream_Init(stream), tok) IN
       /\ stream' = d.s
       /\ tok' = d.t
       /\ closes' = closes + d.closed
       /\ firstRun' = <<Shown(d.s)>>
    /\ UNCHANGED <<src, crashed, leaked, runtimeVars, running, wpm, phase, replay>>

\* s.Next()
ReplayAdvance ==
    /\ started
    /\ ~crashed
    /\ LET d == runCmd(stream_Next(stream), tok) IN
       /\ stream' = d.s
       /\ tok' = d.t
       /\ closes' = closes + d.closed
       /\ IF phase = "first"
          THEN /\ Len(firstRun) <= MaxText
               /\ firstRun' = Append(firstRun, Shown(d.s))
               /\ UNCHANGED replay
          ELSE /\ Len(replay) <= MaxText
               /\ replay' = Append(replay, Shown(d.s))
               /\ UNCHANGED firstRun
    /\ UNCHANGED <<src, crashed, leaked, runtimeVars, running, wpm, started, phase>>

\* s.Restart() on a restartable stream, openInput succeeding or not.
ReplayRestart(openOk) ==
    /\ started
    /\ ~crashed
    /\ stream_SupportsRestart(stream)
    /\ LET r == stream_Restart(stream, openOk)
           fresh == IsLazy(stream) /\ openOk
           d == runCmd(r, IF fresh THEN newTokenizer ELSE tok)
       IN /\ stream' = d.s
          /\ tok' = d.t
          /\ closes' = IF fresh THEN d.closed - Cardinality(r.closed)
                                ELSE closes + d.closed
          /\ leaked' = IF fresh /\ closes + Cardinality(r.closed) = 0
                       THEN leaked + 1 ELSE leaked
          /\ replay' = <<Shown(d.s)>>
    /\ phase' = "again"
    /\ UNCHANGED <<src, crashed, runtimeVars, running, wpm, started, firstRun>>

ReplayNext ==
    \/ ReplayStart
    \/ ReplayAdvance
    \/ \E openOk \in BOOLEAN : ReplayRestart(openOk)

SpecReplay == ReplayInit /\ [][ReplayNext]_vars

----------------------------------------------------------------------------
(* The playback scenario: the user starts the playback, once, and then leaves *)
(* the program alone. The runtime delivers the message of every timer and of  *)
(* every command: tea.Tick fires after its interval, and a command's goroutine *)
(* returns once next() has read a word, the end of the input or an error.      *)

\* The one key of the scenario: space, to start playing.
KeyPlay ==
    /\ phase = "first"
    /\ ~running
    /\ TogglePlay
    /\ phase' = "playing"
    /\ UNCHANGED <<firstRun, replay>>

PlaybackNext ==
    \/ model_Init
    \/ KeyPlay
    \/ Tick
    \/ \E c \in BagToSet(fetching) : TokenMsg(c)

SpecPlayback ==
    /\ Init
    /\ [][PlaybackNext]_vars
    /\ WF_vars(Tick)
    /\ WF_vars(\E c \in BagToSet(fetching) : TokenMsg(c))

----------------------------------------------------------------------------
(* The speed scenario: the program is started at any rate the flags allow and *)
(* only the speed keys are pressed.                                            *)

\* Starting rates: non-positive ones, one of every residue of the step below
\* the lowest rate, the default, and one above the highest rate.
StartRates ==
    {-WPMStep, 0} \cup ((MinWPM - WPMStep)..(MinWPM - 1))
                  \cup {StartWPM, MaxWPM + WPMStep + 1}

SpeedInit ==
    /\ InitWith(FALSE, StartRates)
    /\ src.text = <<"a">>
    /\ ~IsLazy(stream)

SpeedNext ==
    \/ model_Init
    \/ \E delta \in {WPMStep, -WPMStep} : AdjustSpeed(delta)

SpecSpeed == SpeedInit /\ [][SpeedNext]_vars

-----
(* Properties *)

\* The fetch requests issued whose result Update has not handled yet.
Outstanding == BagCardinality(fetching)

\* C1: for a lazy stream at most one fetch request is outstanding at any time,
\* also when Restart() is issued while a fetch is in flight.
C1_AtMostOneFetchOutstanding == IsLazy(stream) => Outstanding <= 1

\* This step handles the result of a fetch issued before the last Restart().
HandlesStaleResult ==
    \E c \in BagToSet(fetching) : c.stale /\ CopiesIn(c, fetching') < CopiesIn(c, fetching)

\* C2: handling a fetch result that belongs to a source superseded by a restart
\* changes nothing of the lazy stream (position, current word, exhausted flag,
\* total, error, in-flight flag) and does not close the newly opened source.
C2_StaleResultDiscarded == [][HandlesStaleResult => UNCHANGED <<stream, closes>>]_vars

\* C3: an eager stream built from N >= 1 tokens starts at position 0 and stays
\* within [0, N-1]; Current() is the token at the position, present;
\* CanAdvance() is true exactly when the position is below N-1; Total() is
\* (true, N).
C3_EagerStreamInBounds ==
    ~IsLazy(stream) =>
        LET words == tokenize(src.text)
            N == Len(words)
            pos == stream_Pos(stream)
        IN /\ N >= 1
           /\ ~started => pos = 0
           /\ pos \in 0..(N - 1)
           /\ stream_Current(stream) = [word |-> words[pos + 1], ok |-> TRUE]
           /\ stream_CanAdvance(stream) <=> pos < N - 1
           /\ stream_Total(stream) = [known |-> TRUE, count |-> N]

\* C3 witness: an eager stream of two words was advanced to its last word.
C3_Witness ==
    /\ ~IsLazy(stream)
    /\ Len(stream.words) = 2
    /\ stream_Pos(stream) = 1
    /\ ~stream_CanAdvance(stream)

\* The tokenizer of a source after n calls of next() that all succeeded.
RECURSIVE tokenizerAfter(_)
tokenizerAfter(n) ==
    IF n = 0 THEN newTokenizer ELSE tokenizer_next(tokenizerAfter(n - 1), src.text, {}).t

\* A lazy stream that delivered its source's tokens in source order so far: one
\* command at most, on the stream's own tokenizer, which stands right after the
\* words delivered; the current word is the token at the position.
InOrder ==
    IsLazy(stream) =>
        LET words == tokenize(src.text)
            k == stream_Pos(stream)
        IN /\ \A c \in BagToSet(fetching) : ~c.stale
           /\ ~tok.raced
           /\ Pending <= 1
           /\ stream.waitingToken <=> Pending = 1
           /\ stream.done => Pending = 0
           /\ ~stream.done => tok = tokenizerAfter(stream.idx + 1)
           /\ k = stream.idx
           /\ k >= 0 => /\ k < Len(words)
                        /\ stream_Current(stream) = [word |-> words[k + 1], ok |-> TRUE]

\* C4: in a run of a lazy stream with no restart event, under any interleaving
\* of ticks, toggle-play, speed keys and fetch results, whenever Pos() = k >= 0
\* Current() is the k-th token of the source: the stream starts in order, and
\* every step that is not a restart keeps it in order.
C4_InOrderWithoutRestart == InOrder /\ [][(InOrder /\ ~KeyRestart) => InOrder']_vars

\* C4 witness: a stream that cannot restart delivered "a" and then "aa".
C4_Witness ==
    /\ IsLazy(stream)
    /\ ~stream.supportsRestart
    /\ src.text = <<"a", " ", "a", "a">>
    /\ stream_Pos(stream) = 1
    /\ stream_Current(stream) = [word |-> <<"a", "a">>, ok |-> TRUE]

\* C5: whenever a lazy stream's Total() reports known (exhausted by end of input
\* or by an error result), the count is the number of non-empty tokens delivered
\* since construction or the last restart (idx + 1); before exhaustion Total()
\* reports unknown. Stated for the streams that cannot restart, where every
\* result handled is the source's own.
C5_TotalCountsDelivered ==
    IsLazy(stream) /\ ~stream.supportsRestart =>
        stream_Total(stream) = IF stream.done
                               THEN [known |-> TRUE, count |-> stream.idx + 1]
                               ELSE [known |-> FALSE, count |-> 0]

\* C6: restart idempotence. On a restartable stream (eager, or lazy over an
\* unchanged file that reopens), after Restart() the same advances, each fetch
\* resolved before the next call, show the same (Current(), Pos()) values as
\* they did from the initial state.
C6_RestartReplaysFirstRun ==
    phase = "again" /\ stream_Err(stream) # "open" =>
        \A i \in 1..Len(replay) : i <= Len(firstRun) => replay[i] = firstRun[i]

\* C6 witness: a lazy stream was restarted after its second word and showed
\* both words again.
C6_Witness ==
    /\ phase = "again"
    /\ IsLazy(stream)
    /\ Len(firstRun) >= 2
    /\ firstRun[2].pos = 1
    /\ Len(replay) >= 2
    /\ replay[2].pos = 1
    /\ replay[2].word = <<"a", "a">>

\* C7: once a lazy stream is exhausted, CanAdvance() is false and Next() returns
\* no fetch request and changes no state, and no step other than a restart
\* makes the stream advanceable again.
C7_ExhaustedUntilRestart ==
    /\ [](IsLazy(stream) /\ stream.done =>
            /\ ~stream_CanAdvance(stream)
            /\ stream_Next(stream) = Ret(stream, {}, {}))
    /\ [][(IsLazy(stream) /\ ~stream_CanAdvance(stream) /\ ~KeyRestart)
            => ~stream_CanAdvance(stream')]_vars

\* C7 witness: an exhausted lazy stream with a word delivered and a tick pending.
C7_Witness ==
    /\ IsLazy(stream)
    /\ stream.done
    /\ stream.hasCurrent
    /\ running
    /\ ticks > 0

\* C8: Next() on a lazy stream while a fetch is in flight is a no-op: no fetch
\* request, no change of the stream.
C8_NextIsNoOpWhileFetching ==
    IsLazy(stream) /\ Outstanding > 0 => stream_Next(stream) = Ret(stream, {}, {})

\* What next() returned: the end of input with no token, a token.
IsEmptyDone(res) == res.word = <<>> /\ res.done /\ res.err = "nil"
IsToken(res) == res.word # <<>> /\ res.err = "nil"

\* C9: handling a result with an empty token, the exhaustion flag and no error
\* leaves position, current word and Current() as they were; the stream becomes
\* exhausted, total becomes position + 1, the in-flight flag is cleared and the
\* source is closed.
C9_EmptyDoneKeepsCurrent ==
    [][\A c \in BagToSet(fetching) : \A res \in tokenizeCmd(c) :
         IsEmptyDone(res) /\ TokenMsgWith(c, res) =>
            /\ stream' = [stream EXCEPT !.done = TRUE,
                                        !.total = stream_Pos(stream) + 1,
                                        !.waitingToken = FALSE,
                                        !.inputCloser = {}]
            /\ stream_Pos(stream') = stream_Pos(stream)
            /\ stream_Current(stream') = stream_Current(stream)
            /\ closes' = closes + Cardinality(stream.inputCloser)]_vars

\* C9 witness: the source "a " was read to its end: the word, then the end.
C9_Witness ==
    /\ IsLazy(stream)
    /\ ~stream.supportsRestart
    /\ src.text = <<"a", " ">>
    /\ stream.done
    /\ stream.err = "nil"
    /\ stream_Current(stream) = [word |-> <<"a">>, ok |-> TRUE]
    /\ stream_Total(stream) = [known |-> TRUE, count |-> 1]
    /\ closes = 1

\* C10: handling a result with a non-empty token and no error advances the
\* position by exactly one and makes Current() (that token, true), with or
\* without the exhaustion flag; with it, CanAdvance() becomes false and Total()
\* becomes (true, new position + 1).
C10_TokenAdvancesByOne ==
    [][\A c \in BagToSet(fetching) : \A res \in tokenizeCmd(c) :
         IsToken(res) /\ TokenMsgWith(c, res) =>
            /\ stream_Pos(stream') = stream_Pos(stream) + 1
            /\ stream_Current(stream') = [word |-> res.word, ok |-> TRUE]
            /\ res.done =>
                  /\ ~stream_CanAdvance(stream')
                  /\ stream_Total(stream') =
                        [known |-> TRUE, count |-> stream_Pos(stream') + 1]]_vars

\* C10 witness: the source "a a" was read to its end: the last word arrived
\* together with the end of input.
C10_Witness ==
    /\ IsLazy(stream)
    /\ ~stream.supportsRestart
    /\ src.text = <<"a", " ", "a">>
    /\ stream.done
    /\ stream_Pos(stream) = 1
    /\ stream_Total(stream) = [known |-> TRUE, count |-> 2]

\* What next() returned: an error.
IsError(res) == res.err # "nil"

\* C11: handling a result that carries an error sets Err(), marks the stream
\* exhausted (CanAdvance() false) and closes the source; position and current
\* word stay as they were, and with no word delivered yet Current() is ("", false).
C11_ErrorKeepsCurrent ==
    [][fetching' # fetching =>
       \A c \in BagToSet(fetching) : \A res \in tokenizeCmd(c) :
         IsError(res) /\ TokenMsgWith(c, res) =>
            /\ stream_Err(stream') # "nil"
            /\ ~stream_CanAdvance(stream')
            /\ stream'.inputCloser = {}
            /\ closes' = closes + Cardinality(stream.inputCloser)
            /\ stream_Pos(stream') = stream_Pos(stream)
            /\ stream_Current(stream') = stream_Current(stream)
            /\ stream_Pos(stream) = -1 =>
                  stream_Current(stream') = [word |-> <<>>, ok |-> FALSE]]_vars

\* C11 witness: the read after the first word of "a a" failed; the word stays.
C11_Witness ==
    /\ IsLazy(stream)
    /\ ~stream.supportsRestart
    /\ src.text = <<"a", " ", "a">>
    /\ stream_Err(stream) = "io"
    /\ ~stream_CanAdvance(stream)
    /\ stream_Current(stream) = [word |-> <<"a">>, ok |-> TRUE]
    /\ stream_Pos(stream) = 0
    /\ closes = 1

\* C12: capability gating. A seek key on a stream that cannot seek and the
\* restart key on a stream that cannot restart change nothing and issue no
\* fetch and no tick; Prev() is never called on a lazy stream, so the program
\* never panics.
C12_CapabilityGating ==
    /\ [](~crashed)
    /\ [][(KeyRight \/ KeyLeft) /\ ~stream_SupportsSeek(stream) => UNCHANGED vars]_vars
    /\ [][KeyRestart /\ ~stream_SupportsRestart(stream) => UNCHANGED vars]_vars

\* C12 witness: a lazy stream over a pipe, playing, a word shown and the next
\* fetch in flight: the state in which the seek and restart keys arrive.
C12_Witness ==
    /\ started
    /\ ~crashed
    /\ IsLazy(stream)
    /\ ~stream_SupportsSeek(stream)
    /\ ~stream_SupportsRestart(stream)
    /\ running
    /\ stream_Pos(stream) = 0
    /\ Outstanding = 1
    /\ ENABLED KeyLeft
    /\ ENABLED KeyRestart

\* The index of the last word delivered: for a lazy stream the words handled
\* since construction or the last restart, for an eager stream all of them.
LastDelivered(s) == IF IsLazy(s) THEN s.idx ELSE Len(s.words) - 1

\* C13: Pos() lies in [-1, index of the last word delivered], Pos() = -1 exactly
\* when Current() reports no word, and a lazy stream's index is >= 0 exactly
\* when its has-current flag is set.
C13_PosWithinDelivered ==
    /\ LastDelivered(stream) >= -1
    /\ stream_Pos(stream) \in -1..LastDelivered(stream)
    /\ stream_Pos(stream) = -1 <=> ~stream_Current(stream).ok
    /\ IsLazy(stream) => (stream.idx >= 0 <=> stream.hasCurrent)

\* C13 witness: a restartable lazy stream, restarted while a fetch was in flight,
\* shows no word: Pos() = -1.
C13_Witness ==
    /\ IsLazy(stream)
    /\ stream_SupportsRestart(stream)
    /\ started
    /\ stream_Pos(stream) = -1
    /\ ~stream_Current(stream).ok
    /\ stream.waitingToken
    /\ \E c \in BagToSet(fetching) : c.stale

\* C14: every source handle a lazy stream owns is closed exactly once. No
\* handle is closed twice; an exhausted or errored stream holds no open handle,
\* the one opened last having been closed; and at a restart the handle open
\* before it has been closed once by the time the source is reopened.
C14_HandleClosedOnce ==
    /\ [](IsLazy(stream) =>
            /\ closes <= 1
            /\ leaked = 0
            /\ stream.inputCloser = {} <=> closes = 1
            /\ stream.done \/ stream_Err(stream) # "nil" =>
                  stream.inputCloser = {} /\ closes = 1)
    /\ [][\A openOk \in BOOLEAN :
            IsLazy(stream) /\ stream_SupportsRestart(stream) /\ started /\ RestartLazy(openOk)
               => closes + Cardinality(stream_Restart(stream, openOk).closed) = 1]_vars

\* C14 witness: a stream restarted while a fetch was in flight reached the end
\* of its reopened source and closed it.
C14_Witness ==
    /\ IsLazy(stream)
    /\ stream.done
    /\ stream_Err(stream) = "nil"
    /\ stream.inputCloser = {}
    /\ closes = 1
    /\ \E c \in BagToSet(fetching) : c.stale

\* C15: Restart() on a restartable lazy stream, from any state, closes the open
\* source if there is one and resets position, current word and total; when the
\* reopen succeeds the exhausted flag and the error are clear and exactly one
\* fetch is issued against the new source; when it fails no fetch is issued and
\* the stream has Err() non-nil, CanAdvance() false and Current() = ("", false).
C15_RestartResets ==
    [][\A openOk \in BOOLEAN :
         IsLazy(stream) /\ stream_SupportsRestart(stream) /\ started /\ RestartLazy(openOk) =>
            LET r == stream_Restart(stream, openOk) IN
            /\ r.closed = stream.inputCloser
            /\ stream_Pos(stream') = -1
            /\ stream'.idx = -1
            /\ stream_Current(stream') = [word |-> <<>>, ok |-> FALSE]
            /\ stream'.total = 0
            /\ IF openOk
               THEN /\ stream_CanAdvance(stream')
                    /\ stream_Err(stream') = "nil"
                    /\ stream_Total(stream') = [known |-> FALSE, count |-> 0]
                    /\ stream'.inputCloser # {}
                    /\ closes' = 0
                    /\ Cardinality(r.cmd) = 1
                    /\ CopiesIn(Fetch, fetching') = 1
                    /\ BagCardinality(fetching') = BagCardinality(fetching) + 1
               ELSE /\ stream_Err(stream') # "nil"
                    /\ ~stream_CanAdvance(stream')
                    /\ stream'.inputCloser = {}
                    /\ r.cmd = {}
                    /\ CopiesIn(Fetch, fetching') = 0
                    /\ BagCardinality(fetching') = BagCardinality(fetching)]_vars

\* C15 witness: a restart of a stream over a non-empty file whose reopen failed.
C15_Witness ==
    /\ IsLazy(stream)
    /\ stream_Err(stream) = "open"
    /\ ~stream_CanAdvance(stream)
    /\ stream_Pos(stream) = -1
    /\ closes = 1
    /\ Len(src.text) > 0

\* C16: a timer tick handled while paused changes nothing of the stream or the
\* controller and schedules nothing (the tick handled is gone, no other takes
\* its place); a tick handled while playing with CanAdvance() false pauses the
\* controller, leaves the stream as it is and schedules no tick and no fetch.
C16_TickPausedOrAtEnd ==
    /\ [][Tick /\ ~running =>
            /\ UNCHANGED <<stream, running, wpm, fetching, sourceVars>>
            /\ ticks' = ticks - 1]_vars
    /\ [][Tick /\ running /\ ~stream_CanAdvance(stream) =>
            /\ ~running'
            /\ stream_Pos(stream') = stream_Pos(stream)
            /\ UNCHANGED <<stream, wpm, fetching, sourceVars>>
            /\ ticks' = ticks - 1]_vars

\* C16 witness: an eager stream playing at its last word with a tick pending,
\* and the tick can be handled.
C16_Witness ==
    /\ ~IsLazy(stream)
    /\ running
    /\ ~stream_CanAdvance(stream)
    /\ stream_Pos(stream) = 1
    /\ ticks = 1
    /\ ENABLED Tick

\* C17: whenever a fetch result carrying an error is handled while the
\* controller is playing, the controller is paused when the handler returns and
\* the handler schedules no tick and no fetch, also when a word delivered
\* earlier is still current. Stated for the streams that cannot restart, where
\* every result handled is the source's own.
C17_ErrorForcesPaused ==
    [][\A c \in BagToSet(fetching) : \A res \in tokenizeCmd(c) :
         /\ IsLazy(stream) /\ ~stream_SupportsRestart(stream)
         /\ running
         /\ IsError(res)
         /\ TokenMsgWith(c, res)
         => /\ ~running'
            /\ ticks' = ticks
            /\ BagCardinality(fetching') = BagCardinality(fetching) - 1]_vars

PlaybackOver ==
    LET words == tokenize(src.text) IN
    /\ ~running
    /\ ~stream_CanAdvance(stream)
    /\ ~IsLazy(stream) => stream_Pos(stream) = Len(words) - 1
    /\ IsLazy(stream) /\ stream_Err(stream) = "nil" =>
          /\ stream.idx = Len(words) - 1
          /\ stream_Pos(stream) = Len(words) - 1
          /\ Len(words) > 0 => stream_Current(stream) = [word |-> words[Len(words)], ok |-> TRUE]

C20_RateClampedIntervalDecreasing ==
    /\ [][\A delta \in {WPMStep, -WPMStep} :
            started /\ wpm' = model_adjustWPM(wpm, delta) =>
               /\ wpm' \in MinWPM..MaxWPM
               /\ wpm = MaxWPM /\ delta = WPMStep => wpm' = MaxWPM
               /\ wpm = MinWPM /\ delta = -WPMStep => wpm' = MinWPM]_vars
    /\ [](wpm \in MinWPM..MaxWPM =>
            \A v \in MinWPM..MaxWPM :
               v < wpm => model_wordInterval(v) > model_wordInterval(wpm))
    /\ [](wpm <= 0 => model_wordInterval(wpm) = Second)

\* C20 witness: speed keys brought the rate to the highest rate, where the word
\* interval is 50 ms.
C20_Witness ==
    /\ started
    /\ wpm = MaxWPM
    /\ model_wordInterval(wpm) = 50000000

\* C21: in every reachable state at most one timer tick is scheduled and not
\* yet handled, under any sequence of toggle-play, speed, restart, tick and
\* fetch-result events.
C21_AtMostOneTickPending == ticks <= 1

\* C22: playback never stalls silently. In every reachable state in which the
\* controller is playing, a timer tick or a fetch request is outstanding, as
\* long as no call of next() has returned an empty token without the end of
\* input or an error (which only a call racing with another on one tokenizer
\* can); and a call that does not race never returns such a token.
C22_PlayingHasEventPending ==
    /\ races = 0 /\ running => ticks > 0 \/ Outstanding > 0
    /\ \A c \in BagToSet(fetching) :
          ~Overlaps(c) =>
             \A res \in tokenizeCmd(c) : res.word = <<>> => res.done \/ IsError(res)

\* C22 witness: the restart key was pressed while playing with a fetch in
\* flight; no tick is pending, only fetches.
C22_Witness ==
    /\ running
    /\ races = 0
    /\ ticks = 0
    /\ IsLazy(stream)
    /\ stream_Pos(stream) = -1
    /\ stream.waitingToken
    /\ Outstanding = 2
    /\ \E c \in BagToSet(fetching) : c.stale

====
